---- MODULE Spec2Model ----
(***************************************************************************)
(* Model of src/src/components/CalorieTracker.tsx: the CalorieTracker      *)
(* component (entry list, add form, CSV export/import, session storage).   *)
(*                                                                         *)
(* Text is a sequence of one-character strings.  A number is an integer,   *)
(* or one of two reserved integers that stand for NaN and for the null     *)
(* that JSON writes in place of NaN; a timestamp is a number of            *)
(* milliseconds since the epoch.                                           *)
(***************************************************************************)
EXTENDS Integers, Sequences, FiniteSets, TLC

VARIABLES
  items,           \* useState<CalorieItem[]>                       (line 127)
  name,            \* useState("") : the name input                 (line 128)
  calories,        \* useState("") : the calories input             (line 129)
  weight,          \* useState("180")                               (line 130)
  selectedTarget,  \* useState("maintenance")                       (line 131)
  importStatus,    \* useState<string | null>(null)                 (line 135)
  storage,         \* sessionStorage: one value per key, or Null
  pending,         \* imports suspended at `await file.text()`      (line 232)
  now,             \* the value Date.now() returns
  nextId,          \* number of ids crypto.randomUUID() has handed out
  phase,           \* "init": component constructed, effects not yet run; "ready"
  exported,        \* the file last downloaded by exportToCSV, or Null
  failing,         \* the keys whose getItem / setItem throws at present
  codec,           \* rows handed to toCsv, a text handed to parseCsv, the result
  last             \* history: the operation that produced this state

vars == <<items, name, calories, weight, selectedTarget, importStatus, storage,
          pending, now, nextId, phase, exported, failing, codec,
          last>>

(***************************************************************************)
(* Values                                                                  *)
(***************************************************************************)
\* NaN, and the null JSON.stringify writes for it: two integers no number
\* of the model takes.
NaN == 0 - 2147483647
NullNumber == NaN + 1
\* text[i] past the end of the text.
Undefined == "undefined"

\* Time units of the Date object, in milliseconds.
MsPerSecond == 10 * 100
MsPerMinute == 60 * MsPerSecond
MsPerHour == 60 * MsPerMinute
MsPerDay == 24 * MsPerHour

\* One past the latest timestamp the model renders (24 days: 32-bit integers).
MaxTime == 24 * MsPerDay

(***************************************************************************)
(* Characters and strings                                                  *)
(***************************************************************************)
Digits == <<"0", "1", "2", "3", "4", "5", "6", "7", "8", "9">>

UpperCase == <<"A", "B", "C", "D", "E", "F", "G", "H", "I", "J", "K", "L", "M",
               "N", "O", "P", "Q", "R", "S", "T", "U", "V", "W", "X", "Y", "Z">>

LowerCase == <<"a", "b", "c", "d", "e", "f", "g", "h", "i", "j", "k", "l", "m",
               "n", "o", "p", "q", "r", "s", "t", "u", "v", "w", "x", "y", "z">>

IsDigit(ch) == \E d \in 1..10 : Digits[d] = ch

DigitValue(ch) == (CHOOSE d \in 1..10 : Digits[d] = ch) - 1

\* The characters String.prototype.trim() strips, of those the model writes.
WhiteSpace == {" ", "\t", "\n", "\r"}

\* String.prototype.toLowerCase(), character by character.
LowerChar(ch) ==
  IF \E k \in 1..26 : UpperCase[k] = ch
    THEN LowerCase[CHOOSE k \in 1..26 : UpperCase[k] = ch]
    ELSE ch

ToLowerCase(s) == [k \in 1..Len(s) |-> LowerChar(s[k])]

\* String.prototype.trim()
Trim(s) ==
  IF \A k \in 1..Len(s) : s[k] \in WhiteSpace
    THEN <<>>
    ELSE LET first == CHOOSE k \in 1..Len(s) :
                        /\ s[k] \notin WhiteSpace
                        /\ \A j \in 1..(k - 1) : s[j] \in WhiteSpace
             final == CHOOSE k \in 1..Len(s) :
                        /\ s[k] \notin WhiteSpace
                        /\ \A j \in (k + 1)..Len(s) : s[j] \in WhiteSpace
         IN  SubSeq(s, first, final)

RECURSIVE NatToString(_)
\* Number.prototype.toString() of a non-negative integer.
NatToString(n) ==
  IF n < 10 THEN <<Digits[n + 1]>>
  ELSE NatToString(n \div 10) \o <<Digits[(n % 10) + 1]>>

\* String(value) of a calories value (line 212).
NumberToString(v) ==
  IF v = NaN THEN <<"N", "a", "N">>
  ELSE IF v = NullNumber THEN <<"n", "u", "l", "l">>
  ELSE IF v < 0 THEN <<"-">> \o NatToString(0 - v)
  ELSE NatToString(v)

RECURSIVE DigitsValue(_, _)
\* The value of the decimal digits s, continuing from acc.
DigitsValue(s, acc) ==
  IF s = <<>> THEN acc ELSE DigitsValue(Tail(s), 10 * acc + DigitValue(Head(s)))

RECURSIVE LeadingDigits(_)
\* The longest prefix of s made of decimal digits.
LeadingDigits(s) ==
  IF s = <<>> \/ ~IsDigit(Head(s)) THEN <<>>
  ELSE <<Head(s)>> \o LeadingDigits(Tail(s))

RECURSIVE SkipWhiteSpace(_)
SkipWhiteSpace(s) ==
  IF s # <<>> /\ Head(s) \in WhiteSpace THEN SkipWhiteSpace(Tail(s)) ELSE s

\* Number.parseInt(string, 10): leading white space is skipped, then an
\* optional sign, then the longest run of digits; NaN when there is no digit.
\* Whatever follows the digits is ignored.
ParseInt(string) ==
  LET s == SkipWhiteSpace(string)
      negative == s # <<>> /\ Head(s) = "-"
      signed == s # <<>> /\ Head(s) \in {"-", "+"}
      body == IF signed THEN Tail(s) ELSE s
      ds == LeadingDigits(body)
  IN  IF ds = <<>> THEN NaN
      ELSE IF negative THEN 0 - DigitsValue(ds, 0)
      ELSE DigitsValue(ds, 0)

\* Number.isFinite(value) for the values of the model.
IsFinite(v) == v \notin {NaN, NullNumber}

(***************************************************************************)
(* Date                                                                    *)
(***************************************************************************)
\* n in decimal, left-padded with zeros to the given width.
Pad(n, width) ==
  LET ds == NatToString(n)
  IN  [k \in 1..(width - Len(ds)) |-> "0"] \o ds

\* The part YYYY-MM-DD of toISOString(), for timestamps of January 1970
\* (0 <= timestamp < MaxTime).
ISODate(timestamp) ==
  <<"1", "9", "7", "0", "-", "0", "1", "-">>
    \o Pad((timestamp \div MsPerDay) + 1, 2)

\* The part HH:mm:ss.sssZ of toISOString().
ISOTime(timestamp) ==
  LET inDay == timestamp % MsPerDay
      hour == inDay \div MsPerHour
      minute == (inDay % MsPerHour) \div MsPerMinute
      second == (inDay % MsPerMinute) \div MsPerSecond
      ms == inDay % MsPerSecond
  IN  Pad(hour, 2) \o <<":">> \o Pad(minute, 2) \o <<":">>
        \o Pad(second, 2) \o <<".">> \o Pad(ms, 3) \o <<"Z">>

\* new Date(timestamp).toISOString() (line 214): YYYY-MM-DDTHH:mm:ss.sssZ in
\* UTC.
ToISOString(timestamp) == ISODate(timestamp) \o <<"T">> \o ISOTime(timestamp)

\* new Date(timestamp).toISOString().split('T')[0]: the UTC calendar date,
\* the part of the string before its T.
DateKey(timestamp) == ISODate(timestamp)

AllDigits(s) == \A k \in 1..Len(s) : IsDigit(s[k])

\* The date part YYYY-MM-DD of a date-time string: days since the epoch, or
\* NaN.  Only dates of January 1970 that lie before MaxTime have a value in
\* the model.
ParseDatePart(s) ==
  IF /\ Len(s) = 10
     /\ s[5] = "-" /\ s[8] = "-"
     /\ AllDigits(SubSeq(s, 1, 4)) /\ AllDigits(SubSeq(s, 6, 7))
     /\ AllDigits(SubSeq(s, 9, 10))
     /\ SubSeq(s, 1, 7) = <<"1", "9", "7", "0", "-", "0", "1">>
     /\ DigitsValue(SubSeq(s, 9, 10), 0) \in 1..(MaxTime \div MsPerDay)
    THEN DigitsValue(SubSeq(s, 9, 10), 0) - 1
    ELSE NaN

\* The time part HH:mm:ss.sssZ: milliseconds since midnight UTC, or NaN.
ParseTimePart(s) ==
  IF /\ Len(s) = 13
     /\ s[3] = ":" /\ s[6] = ":" /\ s[9] = "." /\ s[13] = "Z"
     /\ AllDigits(SubSeq(s, 1, 2)) /\ AllDigits(SubSeq(s, 4, 5))
     /\ AllDigits(SubSeq(s, 7, 8)) /\ AllDigits(SubSeq(s, 10, 12))
     /\ DigitsValue(SubSeq(s, 1, 2), 0) < 24
     /\ DigitsValue(SubSeq(s, 4, 5), 0) < 60
     /\ DigitsValue(SubSeq(s, 7, 8), 0) < 60
    THEN DigitsValue(SubSeq(s, 1, 2), 0) * MsPerHour
           + DigitsValue(SubSeq(s, 4, 5), 0) * MsPerMinute
           + DigitsValue(SubSeq(s, 7, 8), 0) * MsPerSecond
           + DigitsValue(SubSeq(s, 10, 12), 0)
    ELSE NaN

\* new Date(string).getTime() (line 263) on the ECMAScript date-time string
\* format: the full form YYYY-MM-DDTHH:mm:ss.sssZ and the date-only form
\* YYYY-MM-DD (midnight UTC).  Any other text of the model is no date: NaN.
DateParse(string) ==
  IF Len(string) = 10
    THEN IF ParseDatePart(string) = NaN THEN NaN
         ELSE ParseDatePart(string) * MsPerDay
  ELSE IF Len(string) = 24 /\ string[11] = "T"
    THEN IF \/ ParseDatePart(SubSeq(string, 1, 10)) = NaN
            \/ ParseTimePart(SubSeq(string, 12, 24)) = NaN
           THEN NaN
           ELSE ParseDatePart(SubSeq(string, 1, 10)) * MsPerDay
                  + ParseTimePart(SubSeq(string, 12, 24))
  ELSE NaN

(***************************************************************************)
(* CSV codec (lines 43-124)                                                *)
(***************************************************************************)
RECURSIVE DoubleQuotes(_)
\* value.replace(/"/g, '""')
DoubleQuotes(value) ==
  IF value = <<>> THEN <<>>
  ELSE IF Head(value) = "\"" THEN <<"\"", "\"">> \o DoubleQuotes(Tail(value))
  ELSE <<Head(value)>> \o DoubleQuotes(Tail(value))

\* Faulty variant: the quotes inside a quoted field are left single.
escapeCsvFieldWithoutDoubling(value) ==
  LET needsQuotes == \E k \in 1..Len(value) : value[k] \in {"\n", "\r", "\"", ","}
  IN  IF ~needsQuotes THEN value ELSE <<"\"">> \o value \o <<"\"">>

escapeCsvField(value) ==
  LET needsQuotes == \E k \in 1..Len(value) : value[k] \in {"\n", "\r", "\"", ","}
  IN  IF ~needsQuotes THEN value
      ELSE <<"\"">> \o DoubleQuotes(value) \o <<"\"">>

RECURSIVE Join(_, _)
\* Array.prototype.join(separator) of a sequence of strings.
Join(strings, separator) ==
  IF strings = <<>> THEN <<>>
  ELSE IF Len(strings) = 1 THEN strings[1]
  ELSE strings[1] \o separator \o Join(Tail(strings), separator)

toCsv(rows) ==
  Join([r \in 1..Len(rows) |->
          Join([f \in 1..Len(rows[r]) |-> escapeCsvField(rows[r][f])], <<",">>)],
       <<"\n">>)

\* The parser's local state: rows, row, field, inQuotes (lines 57-60), and
\* skip: the loop advanced i past the character that follows (lines 84, 110).
ParserInit == [rows |-> <<>>, row |-> <<>>, field |-> <<>>, inQuotes |-> FALSE,
               skip |-> FALSE]

pushField(st) == [st EXCEPT !.row = Append(st.row, st.field), !.field = <<>>]

\* Faulty variant: a row whose fields are all empty is not pushed.
pushRowUnlessBlank(st) ==
  IF (\A k \in 1..Len(st.row) : st.row[k] = <<>>) /\ Len(st.rows) > 0
    THEN [st EXCEPT !.row = <<>>]
    ELSE [st EXCEPT !.rows = Append(st.rows, st.row), !.row = <<>>]

\* pushRow (lines 66-74)
pushRow(st) ==
  IF Len(st.row) = 1 /\ st.row[1] = <<>> /\ Len(st.rows) > 0
    THEN [st EXCEPT !.row = <<>>]
    ELSE [st EXCEPT !.rows = Append(st.rows, st.row), !.row = <<>>]

\* The character at index i (1-based), or Undefined past the end.
CharAt(text, i) == IF i \in 1..Len(text) THEN text[i] ELSE Undefined

\* One iteration of the for loop of parseCsv (lines 76-117), at index i
\* (1-based).
ParseStep(text, i, st) ==
  LET ch == text[i]
      next == CharAt(text, i + 1)
  IN  IF st.skip THEN [st EXCEPT !.skip = FALSE]
      ELSE IF st.inQuotes
        THEN IF ch = "\""
               THEN IF next = "\""
                      THEN [st EXCEPT !.field = Append(st.field, "\""),
                                      !.skip = TRUE]
                      ELSE [st EXCEPT !.inQuotes = FALSE]
               ELSE [st EXCEPT !.field = Append(st.field, ch)]
      ELSE IF ch = "\"" THEN [st EXCEPT !.inQuotes = TRUE]
      ELSE IF ch = "," THEN pushField(st)
      ELSE IF ch = "\n" THEN pushRow(pushField(st))
      ELSE IF ch = "\r"
        THEN [pushRow(pushField(st)) EXCEPT !.skip = (next = "\n")]
      ELSE [st EXCEPT !.field = Append(st.field, ch)]

RECURSIVE ParseLoop(_, _, _, _)
\* The iterations of the for loop for the indices from..to, in order: the
\* first half of them, then the second half from the state the first left.
ParseLoop(text, from, to, st) ==
  IF from > to THEN st
  ELSE IF from = to THEN ParseStep(text, from, st)
  ELSE CHOOSE result \in
         {ParseLoop(text, ((from + to) \div 2) + 1, to, half) :
            half \in {ParseLoop(text, from, (from + to) \div 2, st)}} : TRUE

parseCsv(text) ==
  LET st == pushField(ParseLoop(text, 1, Len(text), ParserInit))
  IN  IF Len(st.row) > 1 \/ st.row[1] # <<>> THEN pushRow(st).rows ELSE st.rows

(***************************************************************************)
(* The codec on its own: toCsv and parseCsv applied to rows and texts      *)
(***************************************************************************)
\* Characters of a field, rows of a list, fields of a row, characters of a
\* text.
MaxFieldLen == 2
MaxRows == 2
MaxFields == 3
MaxTextLen == 4

\* A letter and the four characters the writer quotes a field for.
CodecAlphabet == {"a", ",", "\"", "\r", "\n"}

\* The strings of at most n characters.
Strings(n) == UNION {[1..m -> CodecAlphabet] : m \in 0..n}

\* Sequences of min..max elements of a set.
Lists(set, min, max) == UNION {[1..m -> set] : m \in min..max}

\* The row lists handed to toCsv, each row with two fields or more: one row
\* of two fields; lists of rows of two fields of one character at most; one
\* row of several fields.
CodecRowLists ==
  {<<row>> : row \in Lists(Strings(MaxFieldLen), 2, 2)}
    \cup Lists(Lists(Strings(1), 2, 2), 0, MaxRows)
    \cup {<<row>> : row \in Lists(Strings(1), 2, MaxFields)}

\* No codec call in progress.
IdleCodec == [stage |-> "idle", fromRows |-> FALSE, rows |-> <<>>,
              text |-> <<>>, parsed |-> <<>>]

\* A call of toCsv (lines 50-52) on the rows.
WriteCsv ==
  /\ codec.stage = "rows"
  /\ codec' = [codec EXCEPT !.stage = "text", !.text = toCsv(codec.rows)]

\* A call of parseCsv (lines 54-124) on the text.
ReadCsv ==
  /\ codec.stage = "text"
  /\ codec' = [codec EXCEPT !.stage = "parsed", !.parsed = parseCsv(codec.text)]

(***************************************************************************)
(* Bounds and inputs                                                       *)
(***************************************************************************)
\* Ids crypto.randomUUID() may hand out in one run of the model.
MaxIds == 3
\* Imports that may be suspended at `await file.text()` at the same time.
MaxPending == 2
\* Times the clock advances.
MaxTicks == 1

\* Date.now() when the page is first opened, and the step of the clock.
StartTime == 5
TickMs == MsPerDay + 2

\* What the user types into the name input (a text input holds no line break).
NameInputs == {<<>>, <<" ", "a">>, <<"a", ",", "\"", "b">>}

\* What the calories input (type="number", required, step 1) can hold: the
\* empty string or a valid floating-point number.  ".0" is one, of value 0.
CaloriesInputs == {<<>>, <<"7">>, <<".", "0">>}

\* What the weight input (type="number") can hold.
WeightInputs == {<<>>, <<"1", "8", "0">>, <<"5", "0">>}

TargetKeys == {"maintenance", "oneLb", "twoLb"}

(***************************************************************************)
(* Files the user can select for import                                    *)
(***************************************************************************)
HeaderRow == <<"N", "a", "m", "e", ",", "C", "a", "l", "o", "r", "i", "e", "s",
               ",", "T", "i", "m", "e">>

\* 1970-01-01T00:00:00.001Z
TimeA == <<"1", "9", "7", "0", "-", "0", "1", "-", "0", "1", "T", "0", "0", ":",
           "0", "0", ":", "0", "0", ".", "0", "0", "1", "Z">>

\* 1970-01-03T00:00:00.000Z
TimeC == <<"1", "9", "7", "0", "-", "0", "1", "-", "0", "3", "T", "0", "0", ":",
           "0", "0", ":", "0", "0", ".", "0", "0", "0", "Z">>

\* 1970-01-02
DateB == <<"1", "9", "7", "0", "-", "0", "1", "-", "0", "2">>

LF == <<"\n">>
CRLF == <<"\r", "\n">>

\* a,7,<TimeA>
RowA == <<"a", ",", "7", ",">> \o TimeA
\* b,20,<TimeC>
RowB == <<"b", ",", "2", "0", ",">> \o TimeC
\* "x,""<LF>y",7,<TimeA> : a quoted name with a comma, a quote and a line break
RowQuoted == <<"\"", "x", ",", "\"", "\"", "\n", "y", "\"", ",", "7", ",">> \o TimeA

FileTexts == <<
  <<>>,                                                \* 1: empty file
  HeaderRow,                                           \* 2: header only
  HeaderRow \o LF \o LF \o LF,                         \* 3: header, empty lines
  HeaderRow \o LF \o <<",", ",">>,                     \* 4: header, blank cells
  <<"N", "a", "m", "e", ",", "C", "a", "l", "o", "r", "i", "e", "s">>
    \o LF \o <<"a", ",", "7">>,                        \* 5: no Time column
  HeaderRow \o LF \o RowB \o LF \o RowQuoted,          \* 6: two rows, later first
  <<"T", "I", "M", "E", ",", "c", "a", "l", "o", "r", "i", "e", "s", ",",
    "N", "A", "M", "E">> \o LF
    \o DateB \o <<",", "1", "2", ",", "c">>,           \* 7: other case and order
  HeaderRow \o LF \o <<"a", ",", "a", "b", "c", ",">> \o TimeA,  \* 8: calories abc
  HeaderRow \o LF \o LF
    \o <<"a", ",", "a", "b", "c", ",">> \o TimeA,      \* 9: empty line, then abc
  HeaderRow \o LF \o <<"a", ",", "1", ".", "5", ",">> \o TimeA,  \* 10: calories 1.5
  HeaderRow \o LF \o RowA \o LF
    \o <<"b", ",", "2", "0", ",", "s", "o", "o", "n">>,  \* 11: bad time, last row
  HeaderRow \o LF \o <<" ", ",", "7", ",">> \o TimeA,  \* 12: blank name
  HeaderRow \o CRLF \o RowA \o CRLF,                   \* 13: CRLF line ends
  HeaderRow \o LF \o <<"a">>                           \* 14: a row of one field
>>

\* A file: its text, and for a file exportToCSV wrote, the list it was
\* written from.
FixtureFile(k) == [text |-> FileTexts[k], isExport |-> FALSE, from |-> <<>>]

(***************************************************************************)
(* Status messages                                                         *)
(***************************************************************************)
\* importStatus === null
NoStatus == [kind |-> "null", n |-> 0, raw |-> <<>>]
\* `Imported ${n} item(s) from CSV.`
ImportedStatus(n) == [kind |-> "Imported", n |-> n, raw |-> <<>>]
\* "CSV must include a header row and at least one data row."
TooFewRowsError == [kind |-> "TooFewRows", n |-> 0, raw |-> <<>>]
\* "CSV header must include: Name, Calories, Time"
HeaderError == [kind |-> "MissingHeader", n |-> 0, raw |-> <<>>]
\* `Invalid Calories value on row ${n}: ${raw}`
CaloriesError(n, raw) == [kind |-> "InvalidCalories", n |-> n, raw |-> raw]
\* `Invalid Time value on row ${n}: ${raw}`
TimeError(n, raw) == [kind |-> "InvalidTime", n |-> n, raw |-> raw]
\* The message of the error file.text() rejected with.
ReadError == [kind |-> "ReadFailed", n |-> 0, raw |-> <<>>]

IsErrorStatus(st) == st.kind \notin {"null", "Imported"}

(***************************************************************************)
(* importFromCSV after the read (lines 233-279)                            *)
(***************************************************************************)
UnnamedItem == <<"U", "n", "n", "a", "m", "e", "d", " ", "I", "t", "e", "m">>

\* Faulty variant: an empty name is kept.
DefaultNameKept(rawName) == rawName

\* name || "Unnamed Item" (lines 191, 270)
DefaultName(rawName) == IF rawName = <<>> THEN UnnamedItem ELSE rawName

\* Array.prototype.indexOf: the 0-based index of the first match, or -1.
IndexOf(array, value) ==
  IF \E k \in 1..Len(array) : array[k] = value
    THEN (CHOOSE k \in 1..Len(array) :
            array[k] = value /\ \A j \in 1..(k - 1) : array[j] # value) - 1
    ELSE -1

\* (row[idx] ?? "").trim() for a 0-based idx
Cell(row, idx) == IF idx + 1 \in 1..Len(row) THEN Trim(row[idx + 1]) ELSE <<>>

\* row.every((cell) => cell.trim() === "")
IsBlankRow(row) == \A k \in 1..Len(row) : Trim(row[k]) = <<>>

RECURSIVE InsertByTimestamp(_, _)
\* sorted, with item inserted after every entry whose timestamp is not later.
InsertByTimestamp(sorted, item) ==
  IF sorted = <<>> THEN <<item>>
  ELSE IF sorted[Len(sorted)].timestamp <= item.timestamp THEN Append(sorted, item)
  ELSE Append(InsertByTimestamp(SubSeq(sorted, 1, Len(sorted) - 1), item),
              sorted[Len(sorted)])

RECURSIVE SortByTimestamp(_)
\* nextItems.sort((a, b) => a.timestamp - b.timestamp): a stable sort.
SortByTimestamp(list) ==
  IF list = <<>> THEN <<>>
  ELSE InsertByTimestamp(SortByTimestamp(SubSeq(list, 1, Len(list) - 1)),
                         list[Len(list)])

RECURSIVE ImportLoop(_, _, _, _, _, _, _)
\* The loop over the data rows (lines 249-274) from the 0-based index i on.
\* Returns the entries in file order, or the error thrown.  The ids are the
\* ones after the usedIds already handed out.
ImportLoop(rows, i, nameIdx, caloriesIdx, timeIdx, nextItems, usedIds) ==
  IF i >= Len(rows) THEN [ok |-> TRUE, items |-> nextItems, status |-> NoStatus]
  ELSE
    LET row == rows[i + 1]
        rawName == Cell(row, nameIdx)
        rawCalories == Cell(row, caloriesIdx)
        rawTime == Cell(row, timeIdx)
        caloriesValue == ParseInt(rawCalories)
        parsedTime == DateParse(rawTime)
    IN  IF IsBlankRow(row)
          THEN ImportLoop(rows, i + 1, nameIdx, caloriesIdx, timeIdx, nextItems,
                          usedIds)
        ELSE IF ~IsFinite(caloriesValue)
          THEN [ok |-> FALSE, items |-> <<>>,
                status |-> CaloriesError(i + 1, rawCalories)]
        ELSE IF ~IsFinite(parsedTime)
          THEN [ok |-> FALSE, items |-> <<>>, status |-> TimeError(i + 1, rawTime)]
        ELSE ImportLoop(rows, i + 1, nameIdx, caloriesIdx, timeIdx,
               Append(nextItems,
                      [id |-> usedIds + Len(nextItems) + 1,
                       name |-> DefaultName(rawName),
                       calories |-> caloriesValue,
                       timestamp |-> parsedTime]),
               usedIds)

\* Faulty variant: the header fields are compared as written.
HeaderOfCaseSensitive(rows) == [k \in 1..Len(rows[1]) |-> Trim(rows[1][k])]

\* rows[0].map((h) => h.trim().toLowerCase())
HeaderOf(rows) == [k \in 1..Len(rows[1]) |-> ToLowerCase(Trim(rows[1][k]))]

\* The header names looked up (lines 240-242).
NameColumn == <<"n", "a", "m", "e">>
CaloriesColumn == <<"c", "a", "l", "o", "r", "i", "e", "s">>
TimeColumn == <<"t", "i", "m", "e">>

\* What importFromCSV does with the text read: the sorted entries it sets,
\* or the error it throws.
ImportText(text, usedIds) ==
  LET rows == parseCsv(text)
      header == HeaderOf(rows)
      nameIdx == IndexOf(header, NameColumn)
      caloriesIdx == IndexOf(header, CaloriesColumn)
      timeIdx == IndexOf(header, TimeColumn)
      parsed == ImportLoop(rows, 1, nameIdx, caloriesIdx, timeIdx, <<>>, usedIds)
  IN  IF Len(rows) < 2
        THEN [ok |-> FALSE, items |-> <<>>, status |-> TooFewRowsError]
      ELSE IF nameIdx = -1 \/ caloriesIdx = -1 \/ timeIdx = -1
        THEN [ok |-> FALSE, items |-> <<>>, status |-> HeaderError]
      ELSE IF ~parsed.ok THEN parsed
      ELSE [ok |-> TRUE, items |-> SortByTimestamp(parsed.items),
            status |-> ImportedStatus(Len(parsed.items))]

(***************************************************************************)
(* Session storage (lines 140-170, 305-327)                                *)
(***************************************************************************)
\* sessionStorage.getItem(key) === null
Absent == [kind |-> "absent", value |-> <<>>]
\* The same for the key of the goal, whose values the model writes as words.
AbsentTarget == [kind |-> "absent", value |-> ""]

\* JSON.stringify(items): NaN is written as null, everything else as it is.
JsonStringify(list) ==
  [kind |-> "array",
   value |-> [k \in 1..Len(list) |->
                [list[k] EXCEPT !.calories =
                   IF list[k].calories = NaN THEN NullNumber ELSE @]]]

StoredString(string) == [kind |-> "string", value |-> string]

DefaultWeight == <<"1", "8", "0">>
DefaultTarget == "maintenance"

\* A stored text JSON.parse throws on, and one it parses to a value that is
\* no array.
NotJson == [kind |-> "notJson", value |-> <<>>]
NotArray == [kind |-> "notArray", value |-> <<>>]

\* The first try block of the load effect (lines 141-151): the list it sets,
\* the initial one when it sets none.
LoadItems(stored) == IF stored.kind = "array" THEN stored.value ELSE <<>>

\* The second try block (lines 153-160).
LoadWeight(stored) ==
  IF stored.kind = "string" /\ stored.value # <<>> THEN stored.value
  ELSE DefaultWeight

\* The third try block (lines 162-169).
LoadTarget(stored) ==
  IF stored.kind = "string" /\ stored.value \in TargetKeys THEN stored.value
  ELSE DefaultTarget

\* The keys of the session storage (lines 142, 154, 163).
StorageKeys == {"items", "weight", "selectedTarget"}

\* No call of the storage throws.
NoFailure == [read |-> {}, write |-> {}]

\* Faulty variant: one read that throws makes the load effect give up all keys.
ReadableOnlyIfAll(key, failure) == failure.read = {}

\* getItem of this key returns: each key is read in a try block of its own
\* (lines 141-151, 153-160, 162-169).
Readable(key, failure) == key \notin failure.read

\* What the try block of a key works on: the stored value, or nothing when
\* getItem threw and the catch was taken.
GetItem(key, store, failure) ==
  IF Readable(key, failure) THEN store[key]
  ELSE IF key = "selectedTarget" THEN AbsentTarget ELSE Absent

\* The save effects (lines 305-327) of the keys whose state a render has
\* changed: each setItem is in a try block of its own, and one that throws
\* leaves the stored value as it was.
SaveEffects(list, w, target, keys, store, failure) ==
  [items |-> IF "items" \in keys \ failure.write
               THEN JsonStringify(list) ELSE store.items,
   weight |-> IF "weight" \in keys \ failure.write
                THEN StoredString(w) ELSE store.weight,
   selectedTarget |-> IF "selectedTarget" \in keys \ failure.write
                        THEN StoredString(target) ELSE store.selectedTarget]

(***************************************************************************)
(* Targets and statistics (lines 172-183, 205, 329-388, 414-517)           *)
(***************************************************************************)
\* The number an arithmetic operator makes of null.
OrNull(v) == IF v = NullNumber THEN 0 ELSE v

\* a + b on the numbers of the model: NaN when one of them is NaN; null
\* counts as 0.
Plus(a, b) == IF a = NaN \/ b = NaN THEN NaN ELSE OrNull(a) + OrNull(b)

\* a - b and a * b on the numbers of the model.
Minus(a, b) == IF b = NaN THEN NaN ELSE Plus(a, 0 - OrNull(b))
Times(a, b) == IF a = NaN \/ b = NaN THEN NaN ELSE OrNull(a) * OrNull(b)

\* value || 0 of a number: NaN and 0 are falsy, and so is the undefined of
\* a key the map does not hold, which the model writes 0.
OrZero(value) == IF value = NaN THEN 0 ELSE value

Max(a, b) == IF a >= b THEN a ELSE b

\* Math.round(num / den), den >= 0: the integer nearest to the quotient,
\* the upper one of the two when it lies half-way; NaN for 0 / 0.
MathRound(num, den) ==
  IF den = 0 THEN NaN ELSE (2 * num + den) \div (2 * den)

\* The weight is kept in hundredths of a pound.
WeightScale == 10 * 10

\* parseFloat(string), in hundredths: leading white space, an optional sign,
\* digits, and a fraction of one or two digits; NaN when there is no digit.
\* Whatever follows is ignored.
ParseFloat(string) ==
  LET s == SkipWhiteSpace(string)
      negative == s # <<>> /\ Head(s) = "-"
      signed == s # <<>> /\ Head(s) \in {"-", "+"}
      body == IF signed THEN Tail(s) ELSE s
      whole == LeadingDigits(body)
      rest == SubSeq(body, Len(whole) + 1, Len(body))
      decimals == IF rest # <<>> /\ Head(rest) = "."
                    THEN LeadingDigits(Tail(rest)) ELSE <<>>
      fraction == IF Len(decimals) > 2 THEN SubSeq(decimals, 1, 2)
                  ELSE decimals
      hundredths == DigitsValue(whole, 0) * WeightScale
                      + (IF Len(fraction) = 1
                           THEN 10 * DigitsValue(fraction, 0)
                           ELSE DigitsValue(fraction, 0))
  IN  IF whole = <<>> /\ fraction = <<>> THEN NaN
      ELSE IF negative THEN 0 - hundredths
      ELSE hundredths

\* Faulty variant: the two goals without their floor of 1200.
targetsWithoutFloor(w) ==
  LET maintenance == MathRound(OrZero(ParseFloat(w)) * 14, WeightScale)
  IN  [maintenance |-> maintenance, oneLb |-> maintenance - 500,
       twoLb |-> maintenance - 1000]

\* targets (lines 172-181)
targets(w) ==
  LET hundredths == OrZero(ParseFloat(w))
      maintenance == MathRound(hundredths * 14, WeightScale)
  IN  [maintenance |-> maintenance,
       oneLb |-> Max(1200, maintenance - 500),
       twoLb |-> Max(1200, maintenance - 1000)]

RECURSIVE totalCalories(_)
\* items.reduce((sum, item) => sum + item.calories, 0) (line 205)
totalCalories(list) ==
  IF list = <<>> THEN 0
  ELSE Plus(totalCalories(SubSeq(list, 1, Len(list) - 1)),
            list[Len(list)].calories)

\* targets[selectedTarget] (line 183)
currentGoal(w, key) == targets(w)[key]

\* The line under the total (lines 741-745): "Over goal by ... kcal" when
\* totalCalories > currentGoal, a comparison NaN fails, and otherwise
\* "... kcal remaining".
GoalLine(list, w, key) ==
  LET total == totalCalories(list)
      goal == currentGoal(w, key)
  IN  IF total # NaN /\ total > goal
        THEN [over |-> TRUE, amount |-> Minus(total, goal)]
        ELSE [over |-> FALSE, amount |-> Minus(goal, total)]

\* new Array(length).fill(value)
Filled(length, value) == [k \in 1..length |-> value]

\* The label of a point of the cumulative chart: the hour and the minute of
\* the timestamp (line 338), of the UTC day in the model.
TimeLabel(timestamp) ==
  IF IsFinite(timestamp) /\ timestamp >= 0 /\ timestamp < MaxTime
    THEN SubSeq(ToISOString(timestamp), 12, 16)
    ELSE <<"I", "n", "v", "a", "l", "i", "d", " ", "D", "a", "t", "e">>

StartLabel == <<"S", "t", "a", "r", "t">>

\* Faulty variant: the entries in list order.
SortedItemsInListOrder(list) == list

\* [...items].sort((a, b) => a.timestamp - b.timestamp) (line 330)
SortedItems(list) == SortByTimestamp(list)

\* chartData (lines 329-388): the labels, the running sum and the three
\* target lines.
chartData(list, w) ==
  LET sortedItems == SortedItems(list)
      dataPoints == [k \in 1..Len(sortedItems) |->
                       totalCalories(SubSeq(sortedItems, 1, k))]
      labels == <<StartLabel>>
                  \o [k \in 1..Len(sortedItems) |->
                        TimeLabel(sortedItems[k].timestamp)]
  IN  [labels |-> labels,
       data |-> <<0>> \o dataPoints,
       maintenance |-> Filled(Len(labels), targets(w).maintenance),
       oneLb |-> Filled(Len(labels), targets(w).oneLb),
       twoLb |-> Filled(Len(labels), targets(w).twoLb)]

\* new Date(item.timestamp).toISOString() throws a RangeError on a time value
\* that is no number (line 423).
ToISOStringThrows(timestamp) == timestamp = NaN

\* The date key of an entry (lines 422-423); a null timestamp is the epoch.
DateKeyOf(item) ==
  DateKey(IF item.timestamp = NullNumber THEN 0 ELSE item.timestamp)

\* The date keys of the entries, in list order.
DateKeys(list) == [k \in 1..Len(list) |-> DateKeyOf(list[k])]

RECURSIVE DayTotal(_, _, _, _)
\* dailyTotals.get(dateKey) after the first n rounds of the forEach over the
\* list (lines 421-425), keys being the date keys of its entries; 0 for a
\* key the map does not hold.
DayTotal(list, keys, dateKey, n) ==
  IF n = 0 THEN 0
  ELSE LET before == DayTotal(list, keys, dateKey, n - 1)
       IN  IF keys[n] = dateKey
             THEN Plus(OrZero(before), list[n].calories)
             ELSE before

\* The code unit of a character of a date key.
CharCode(ch) == IF ch = "-" THEN 45 ELSE 48 + DigitValue(ch)

RECURSIVE StringLess(_, _)
\* a < b on strings: the order Array.prototype.sort() uses by default.
StringLess(a, b) ==
  IF b = <<>> THEN FALSE
  ELSE IF a = <<>> THEN TRUE
  ELSE IF Head(a) # Head(b) THEN CharCode(Head(a)) < CharCode(Head(b))
  ELSE StringLess(Tail(a), Tail(b))

RECURSIVE SortStrings(_)
\* Array.from(keys).sort() of distinct keys (line 428).
SortStrings(keys) ==
  IF keys = {} THEN <<>>
  ELSE LET least == CHOOSE a \in keys : \A b \in keys \ {a} : StringLess(a, b)
       IN  <<least>> \o SortStrings(keys \ {least})

RECURSIVE Sum(_)
\* array.reduce((sum, val) => sum + val, 0)
Sum(array) == IF array = <<>> THEN 0 ELSE Plus(Head(array), Sum(Tail(array)))

\* Faulty variant: a window of the 8 days that end at index i.
WindowStartOfEight(i) == Max(1, i - 7)

\* Math.max(0, i - 6) (line 434), for the 1-based index i.
WindowStart(i) == Max(1, i - 6)

\* Faulty variant: the quotient rounded down.
AverageRoundedDown(dailyCalories) == Sum(dailyCalories) \div Len(dailyCalories)

\* averageCalories (lines 441-442)
AverageCalories(dailyCalories) ==
  MathRound(Sum(dailyCalories), Len(dailyCalories))

\* dailyChartData === null
NoData == [isNull |-> TRUE, labels |-> <<>>, dailyCalories |-> <<>>,
           rollingAverage |-> <<>>, maintenance |-> <<>>, oneLb |-> <<>>,
           twoLb |-> <<>>, averageCalories |-> 0,
           expectedWeightLossPerMonth |-> [num |-> 0, den |-> 1]]

\* dailyChartData past its first return (lines 419-516) when no toISOString
\* throws.  The labels are the sorted date keys; expectedWeightLossPerMonth
\* is the quotient num / den.
Statistics(list, w) ==
       LET keys == DateKeys(list)
           sortedDates == SortStrings({keys[k] : k \in 1..Len(list)})
           dailyCalories == [d \in 1..Len(sortedDates) |->
                               OrZero(DayTotal(list, keys, sortedDates[d],
                                               Len(list)))]
           rollingAverage ==
             [i \in 1..Len(dailyCalories) |->
                LET start == WindowStart(i)
                    window == SubSeq(dailyCalories, start, i)
                IN  MathRound(Sum(window), Len(window))]
           averageCalories == AverageCalories(dailyCalories)
           dailyDeficit == Minus(targets(w).maintenance, averageCalories)
       IN  [isNull |-> FALSE,
            labels |-> sortedDates,
            dailyCalories |-> dailyCalories,
            rollingAverage |-> rollingAverage,
            maintenance |-> Filled(Len(sortedDates), targets(w).maintenance),
            oneLb |-> Filled(Len(sortedDates), targets(w).oneLb),
            twoLb |-> Filled(Len(sortedDates), targets(w).twoLb),
            averageCalories |-> averageCalories,
            expectedWeightLossPerMonth |->
              [num |-> Times(dailyDeficit, 30), den |-> 3500]]

\* Faulty variant: no return of null for the empty list.
dailyChartDataOfAnyList(list, w) == Statistics(list, w)

\* dailyChartData (lines 414-517)
dailyChartData(list, w) ==
  IF Len(list) = 0 THEN NoData ELSE Statistics(list, w)

\* Faulty variant: the captions of loss and gain exchanged.
WeightChangeCaptionExchanged(value) ==
  IF value.num > 0 THEN "per month (gain)"
  ELSE IF value.num < 0 THEN "per month (loss)"
  ELSE "per month (maintenance)"

\* The render of the component throws: dailyChartData reaches a toISOString
\* that throws (lines 421-423).
RenderThrows(list) ==
  \E k \in 1..Len(list) : ToISOStringThrows(list[k].timestamp)

\* The caption of the Expected Weight Loss card (lines 873-877).
WeightChangeCaption(value) ==
  IF value.num > 0 THEN "per month (loss)"
  ELSE IF value.num < 0 THEN "per month (gain)"
  ELSE "per month (maintenance)"

(***************************************************************************)
(* The component                                                           *)
(***************************************************************************)
NoFile == [text |-> <<>>, isExport |-> FALSE, from |-> <<>>]

\* sessionStorage with none of the three keys.
NothingStored ==
  [items |-> Absent, weight |-> Absent, selectedTarget |-> AbsentTarget]

\* The history of a step: the operation, its arguments, and the list, the
\* weight and the goal before it; of a startup, also what it found stored.
History(op, file, arg) ==
  [op |-> op, before |-> items, file |-> file, arg |-> arg, weight |-> weight,
   target |-> selectedTarget, reloaded |-> FALSE, stored |-> storage]

\* A new browsing session: nothing stored, the component constructed with
\* the initial values of its useState calls (lines 127-135).
Init ==
  /\ items = <<>>
  /\ name = <<>>
  /\ calories = <<>>
  /\ weight = DefaultWeight
  /\ selectedTarget = DefaultTarget
  /\ importStatus = NoStatus
  /\ storage = NothingStored
  /\ pending = <<>>
  /\ now = StartTime
  /\ nextId = 0
  /\ phase = "init"
  /\ exported = NoFile
  /\ failing = NoFailure
  /\ codec = IdleCodec
  /\ last = [op |-> "init", before |-> <<>>, file |-> NoFile, arg |-> <<>>,
             weight |-> DefaultWeight, target |-> DefaultTarget,
             reloaded |-> FALSE, stored |-> NothingStored]

\* Mount: the load effect (lines 140-170) reads the three keys, the save
\* effects (lines 305-327) write the initial state, and the render with the
\* loaded state runs the save effects again.  The user acts on the page once
\* these effects have run.  When the render with the loaded state throws,
\* its effects do not run and the page shows no component: the storage keeps
\* what the save effects of the first render wrote.
Startup ==
  /\ phase = "init"
  /\ items' = LoadItems(GetItem("items", storage, failing))
  /\ weight' = LoadWeight(GetItem("weight", storage, failing))
  /\ selectedTarget' = LoadTarget(GetItem("selectedTarget", storage, failing))
  /\ IF RenderThrows(items')
       THEN /\ phase' = "crashed"
            /\ storage' = SaveEffects(<<>>, DefaultWeight, DefaultTarget,
                                      StorageKeys, storage, failing)
       ELSE /\ phase' = "ready"
            /\ storage' = SaveEffects(items', weight', selectedTarget',
                                      StorageKeys, storage, failing)
  /\ last' = [last EXCEPT !.op = "startup", !.stored = storage]
  /\ UNCHANGED <<failing, codec, name, calories, importStatus, pending, now, nextId, exported>>

\* The user fills in the form (the onChange handlers, lines 763 and 774) and
\* submits it: addItem (lines 185-199).
AddItem(nameInput, caloriesInput) ==
  /\ phase = "ready"
  /\ IF caloriesInput = <<>>
       THEN /\ name' = nameInput
            /\ calories' = caloriesInput
            /\ UNCHANGED <<items, nextId, storage>>
       ELSE /\ nextId < MaxIds
            /\ items' = Append(items,
                               [id |-> nextId + 1,
                                name |-> DefaultName(nameInput),
                                calories |-> ParseInt(caloriesInput),
                                timestamp |-> now])
            /\ name' = <<>>
            /\ calories' = <<>>
            /\ nextId' = nextId + 1
            /\ storage' = SaveEffects(items', weight, selectedTarget,
                                      {"items"}, storage, failing)
  /\ last' = History("add", NoFile, <<nameInput, caloriesInput>>)
  /\ UNCHANGED <<failing, codec, weight, selectedTarget, importStatus, pending, now, phase, exported>>

\* Faulty variant: the list is cut at the first entry with the id.
WithoutIdAndRest(list, id) ==
  IF \E k \in 1..Len(list) : list[k].id = id
    THEN SubSeq(list, 1, (CHOOSE k \in 1..Len(list) :
                            /\ list[k].id = id
                            /\ \A m \in 1..(k - 1) : list[m].id # id) - 1)
    ELSE list

\* prev.filter((item) => item.id !== id)
WithoutId(list, id) == SelectSeq(list, LAMBDA item : item.id # id)

\* removeItem (lines 201-203), from the button of a listed entry.
RemoveItem(id) ==
  /\ phase = "ready"
  /\ \E k \in 1..Len(items) : items[k].id = id
  /\ items' = WithoutId(items, id)
  /\ storage' = SaveEffects(items', weight, selectedTarget, {"items"},
                            storage, failing)
  /\ last' = History("remove", NoFile, <<id>>)
  /\ UNCHANGED <<failing, codec, name, calories, weight, selectedTarget, importStatus, pending,
                 now, nextId, phase, exported>>

\* The rows exportToCSV writes (lines 209-215).
ExportRows(list) ==
  <<<< <<"N", "a", "m", "e">>, <<"C", "a", "l", "o", "r", "i", "e", "s">>,
       <<"T", "i", "m", "e">> >>>>
    \o [k \in 1..Len(list) |->
          <<list[k].name, NumberToString(list[k].calories),
            ToISOString(list[k].timestamp)>>]

\* exportToCSV (lines 207-228): the download is the file `exported`.
ExportToCSV ==
  /\ phase = "ready"
  /\ importStatus' = NoStatus
  /\ exported' = [text |-> toCsv(ExportRows(items)), isExport |-> TRUE,
                  from |-> items]
  /\ last' = History("export", exported', <<>>)
  /\ UNCHANGED <<failing, codec, items, name, calories, weight, selectedTarget, storage, pending,
                 now, nextId, phase>>

\* The user picks a file (and has confirmed the replacement of a non-empty
\* list, lines 633-641): the onChange handler of the file input up to
\* `await file.text()` (lines 657-663, 231-232).
SelectFile(file) ==
  /\ phase = "ready"
  /\ Len(pending) < MaxPending
  /\ importStatus' = NoStatus
  /\ pending' = Append(pending, file)
  /\ last' = History("select", file, <<>>)
  /\ UNCHANGED <<failing, codec, items, name, calories, weight, selectedTarget, storage, now,
                 nextId, phase, exported>>

\* Faulty variant: the entries are put into the list as the rows are read, so a row
\* that throws leaves the list replaced by the rows before it.
ItemsAfterImportEager(result, list) == result.items

\* Faulty variant: the imported entries are appended to the list.
ItemsAfterImportMerged(result, list) ==
  IF result.ok THEN list \o result.items ELSE list

\* The list after importFromCSV: setItems(nextItems) is reached only when no
\* row threw (line 278).
ItemsAfterImport(result, list) == IF result.ok THEN result.items ELSE list

RemoveAt(seq, k) == SubSeq(seq, 1, k - 1) \o SubSeq(seq, k + 1, Len(seq))

\* The read of the k-th pending import completes: the rest of importFromCSV
\* (lines 233-279) and, when it throws, the catch of the onChange handler
\* (lines 664-667).
FileRead(k) ==
  /\ phase = "ready"
  /\ k \in 1..Len(pending)
  /\ \E result \in {ImportText(pending[k].text, nextId)} :
       /\ nextId + Len(result.items) <= MaxIds
       /\ importStatus' = result.status
       /\ items' = ItemsAfterImport(result, items)
       /\ nextId' = nextId + Len(result.items)
       /\ storage' = SaveEffects(items', weight, selectedTarget,
                                 IF result.ok THEN {"items"} ELSE {},
                                 storage, failing)
  /\ pending' = RemoveAt(pending, k)
  /\ last' = History("import", pending[k], <<k>>)
  /\ UNCHANGED <<failing, codec, name, calories, weight, selectedTarget, now, phase, exported>>

\* file.text() rejects: the catch of the onChange handler (lines 664-667).
FileReadFails(k) ==
  /\ phase = "ready"
  /\ k \in 1..Len(pending)
  /\ importStatus' = ReadError
  /\ pending' = RemoveAt(pending, k)
  /\ last' = History("readFailed", pending[k], <<k>>)
  /\ UNCHANGED <<failing, codec, items, name, calories, weight, selectedTarget, storage, now,
                 nextId, phase, exported>>

\* The onChange handler of the weight input (line 704).
SetWeight(w) ==
  /\ phase = "ready"
  /\ weight' = w
  /\ storage' = SaveEffects(items, weight', selectedTarget,
                            IF w = weight THEN {} ELSE {"weight"},
                            storage, failing)
  /\ last' = History("weight", NoFile, <<w>>)
  /\ UNCHANGED <<failing, codec, items, name, calories, selectedTarget, importStatus, pending,
                 now, nextId, phase, exported>>

\* The onChange handler of a goal radio button (line 719).
SetSelectedTarget(key) ==
  /\ phase = "ready"
  /\ selectedTarget' = key
  /\ storage' = SaveEffects(items, weight, selectedTarget',
                            IF key = selectedTarget THEN {}
                            ELSE {"selectedTarget"},
                            storage, failing)
  /\ last' = History("target", NoFile, <<key>>)
  /\ UNCHANGED <<failing, codec, items, name, calories, weight, importStatus, pending, now,
                 nextId, phase, exported>>

\* The failure cases of the session storage: none; getItem of one key
\* throws; setItem of one key throws; every call throws (the storage is
\* not available).
FailureCases ==
  {NoFailure,
   [read |-> {"weight"}, write |-> {}],
   [read |-> {"items"}, write |-> {}],
   [read |-> {}, write |-> {"items"}],
   [read |-> {}, write |-> {"weight"}],
   [read |-> StorageKeys, write |-> StorageKeys]}

\* The environment: calls of the storage start or stop throwing.
StorageFails(failure) ==
  /\ failure # failing
  /\ failing' = failure
  /\ last' = [last EXCEPT !.op = "storage"]
  /\ UNCHANGED <<items, name, calories, weight, selectedTarget, importStatus,
                 storage, pending, now, nextId, phase, exported, codec>>

\* Time passes.
Tick ==
  /\ now + TickMs <= StartTime + MaxTicks * TickMs
  /\ now' = now + TickMs
  /\ last' = History("tick", NoFile, <<>>)
  /\ UNCHANGED <<failing, codec, items, name, calories, weight, selectedTarget, importStatus,
                 storage, pending, phase, nextId, exported>>

\* The page is reloaded: the component is constructed anew; the session
\* storage and the downloaded file stay; pending reads are dropped.
Reload ==
  /\ phase \in {"ready", "crashed"}
  /\ phase' = "init"
  /\ items' = <<>>
  /\ name' = <<>>
  /\ calories' = <<>>
  /\ weight' = DefaultWeight
  /\ selectedTarget' = DefaultTarget
  /\ importStatus' = NoStatus
  /\ pending' = <<>>
  /\ last' = [History("reload", NoFile, <<>>) EXCEPT !.reloaded = TRUE]
  /\ UNCHANGED <<failing, codec, storage, now, nextId, exported>>

\* The files the user can select: the fixtures, and the last download.
FixtureFiles == {FixtureFile(k) : k \in 1..Len(FileTexts)}
ExportedFiles == IF exported.isExport THEN {exported} ELSE {}

\* The entry list: the add form and the import of files, one import at a
\* time.
Next ==
  \/ Startup
  \/ \E nameInput \in {<<>>, <<" ", "a">>}, caloriesInput \in CaloriesInputs :
       AddItem(nameInput, caloriesInput)
  \/ \E file \in FixtureFiles : pending = <<>> /\ SelectFile(file)
  \/ \E k \in 1..Len(pending) : FileRead(k)
  \/ \E k \in 1..Len(pending) : FileReadFails(k)

Spec == Init /\ [][Next]_vars

\* Export, and import of the exported file.
NextExport ==
  \/ Startup
  \/ \E nameInput \in NameInputs, caloriesInput \in {<<>>, <<"7">>} :
       AddItem(nameInput, caloriesInput)
  \/ ExportToCSV
  \/ \E file \in ExportedFiles \cup {FixtureFile(6)} :
       pending = <<>> /\ SelectFile(file)
  \/ \E k \in 1..Len(pending) : FileRead(k)
  \/ Tick

SpecExport == Init /\ [][NextExport]_vars

\* Export of lists whose names come from the form and from an imported file.
NextSerialize ==
  \/ Startup
  \/ \E nameInput \in NameInputs, caloriesInput \in {<<>>, <<"7">>} :
       AddItem(nameInput, caloriesInput)
  \/ ExportToCSV
  \/ pending = <<>> /\ SelectFile(FixtureFile(6))
  \/ \E k \in 1..Len(pending) : FileRead(k)

SpecSerialize == Init /\ [][NextSerialize]_vars

\* The session: edits of the list, the weight and the goal, and reloads.
NextSession ==
  \/ Startup
  \/ \E caloriesInput \in {<<>>, <<"7">>} : AddItem(<<>>, caloriesInput)
  \/ \E k \in 1..Len(items) : RemoveItem(items[k].id)
  \/ \E file \in {FixtureFile(6), FixtureFile(8)} :
       pending = <<>> /\ SelectFile(file)
  \/ \E k \in 1..Len(pending) : FileRead(k)
  \/ \E w \in WeightInputs : SetWeight(w)
  \/ \E key \in TargetKeys : SetSelectedTarget(key)
  \/ Reload

SpecSession == Init /\ [][NextSession]_vars

\* A session in which calls of the session storage throw from time to time.
NextStorage ==
  \/ Startup
  \/ AddItem(<<>>, <<"7">>)
  \/ items # <<>> /\ RemoveItem(items[Len(items)].id)
  \/ SetWeight(<<"5", "0">>)
  \/ SetSelectedTarget("oneLb")
  \/ Reload
  \/ \E failure \in FailureCases : StorageFails(failure)

SpecStorage == Init /\ [][NextStorage]_vars

\* The codec applied to row lists, and parseCsv applied to any text.
InitCodec ==
  /\ items = <<>>
  /\ name = <<>>
  /\ calories = <<>>
  /\ weight = DefaultWeight
  /\ selectedTarget = DefaultTarget
  /\ importStatus = NoStatus
  /\ storage = NothingStored
  /\ pending = <<>>
  /\ now = StartTime
  /\ nextId = 0
  /\ phase = "init"
  /\ exported = NoFile
  /\ failing = NoFailure
  /\ codec \in {[IdleCodec EXCEPT !.stage = "rows", !.fromRows = TRUE,
                                  !.rows = rows] : rows \in CodecRowLists}
               \cup {[IdleCodec EXCEPT !.stage = "text", !.text = text] :
                       text \in Strings(MaxTextLen)}
  /\ last = [op |-> "init", before |-> <<>>, file |-> NoFile, arg |-> <<>>,
             weight |-> DefaultWeight, target |-> DefaultTarget,
             reloaded |-> FALSE, stored |-> NothingStored]

NextCodec ==
  \/ WriteCsv /\ UNCHANGED <<items, name, calories, weight, selectedTarget,
                              importStatus, storage, pending, now, nextId,
                              phase, exported, failing, last>>
  \/ ReadCsv /\ UNCHANGED <<items, name, calories, weight, selectedTarget,
                             importStatus, storage, pending, now, nextId,
                             phase, exported, failing, last>>

SpecCodec == InitCodec /\ [][NextCodec]_vars

\* Imports whose reads overlap: a file is selected while the read of another
\* is pending, and the reads complete in any order.
NextConcurrent ==
  \/ Startup
  \/ \E file \in {FixtureFile(6), FixtureFile(7), FixtureFile(8)} :
       SelectFile(file)
  \/ \E k \in 1..Len(pending) : FileRead(k)
  \/ \E k \in 1..Len(pending) : FileReadFails(k)

SpecConcurrent == Init /\ [][NextConcurrent]_vars

\* An entry as JSON.parse gives it from a stored text; a number the text
\* lacks, or has as something no number is made of, is NaN.
StoredEntry(id, kcal, timestamp) ==
  [id |-> id, name |-> UnnamedItem, calories |-> kcal,
   timestamp |-> timestamp]

\* What the page can find under the three keys when it is opened: nothing,
\* what a save effect wrote, or any other text.
StoredItemsValues ==
  {Absent, NotJson, NotArray,
   [kind |-> "array", value |-> << StoredEntry(101, 7, StartTime) >>],
   [kind |-> "array", value |-> << StoredEntry(101, NullNumber, StartTime) >>],
   [kind |-> "array", value |-> << StoredEntry(101, 7, NaN) >>]}

StoredWeightValues ==
  {Absent, StoredString(<<>>), StoredString(<<"5", "0">>),
   StoredString(<<"a", "b", "c">>)}

StoredTargetValues ==
  {AbsentTarget, StoredString("oneLb"), StoredString("bogus")}

\* The page is opened in a session whose storage holds any of these values.
InitStored ==
  /\ items = <<>>
  /\ name = <<>>
  /\ calories = <<>>
  /\ weight = DefaultWeight
  /\ selectedTarget = DefaultTarget
  /\ importStatus = NoStatus
  /\ storage \in [items : StoredItemsValues, weight : StoredWeightValues,
                   selectedTarget : StoredTargetValues]
  /\ pending = <<>>
  /\ now = StartTime
  /\ nextId = 0
  /\ phase = "init"
  /\ exported = NoFile
  /\ failing = NoFailure
  /\ codec = IdleCodec
  /\ last = [op |-> "init", before |-> <<>>, file |-> NoFile, arg |-> <<>>,
             weight |-> DefaultWeight, target |-> DefaultTarget,
             reloaded |-> FALSE, stored |-> NothingStored]

\* Startup on stored values, and the session that follows it.
NextStored ==
  \/ Startup
  \/ \E caloriesInput \in {<<>>, <<"7">>} : AddItem(<<>>, caloriesInput)
  \/ \E k \in 1..Len(items) : RemoveItem(items[k].id)
  \/ \E key \in TargetKeys : SetSelectedTarget(key)
  \/ Reload

SpecStored == InitStored /\ [][NextStored]_vars

\* A list the session stored before a reload: entries of eight days, two of
\* them on the third day of the month and one of these after an entry of a
\* later day.
StoredWeek ==
  << StoredEntry(101, 100, MsPerDay + 1),
     StoredEntry(102, 150, 2 * MsPerDay),
     StoredEntry(103, 300, 3 * MsPerDay),
     StoredEntry(104, 50, 2 * MsPerDay + StartTime),
     StoredEntry(105, 401, 4 * MsPerDay),
     StoredEntry(106, 7, 5 * MsPerDay),
     StoredEntry(107, 8, 6 * MsPerDay),
     StoredEntry(108, 9, 7 * MsPerDay),
     StoredEntry(109, 2000, 8 * MsPerDay) >>

\* A stored list of two days.
StoredTwoDays ==
  << StoredEntry(101, 1000, StartTime),
     StoredEntry(102, 2000, MsPerDay + StartTime) >>

\* What the user types into the weight input, which holds 180 at first, in
\* the sessions of the statistics.
StatsWeightInputs ==
  {<<"5", "0">>, <<"1", "2", "1", ".", "4", "3">>, <<"0", ".", "5">>}

\* The page is opened in a session that has stored one of these lists, or
\* none.
InitStats ==
  /\ items = <<>>
  /\ name = <<>>
  /\ calories = <<>>
  /\ weight = DefaultWeight
  /\ selectedTarget = DefaultTarget
  /\ importStatus = NoStatus
  /\ storage \in [items : {Absent, [kind |-> "array", value |-> StoredWeek],
                            [kind |-> "array", value |-> StoredTwoDays]},
                   weight : {Absent}, selectedTarget : {AbsentTarget}]
  /\ pending = <<>>
  /\ now = StartTime
  /\ nextId = 0
  /\ phase = "init"
  /\ exported = NoFile
  /\ failing = NoFailure
  /\ codec = IdleCodec
  /\ last = [op |-> "init", before |-> <<>>, file |-> NoFile, arg |-> <<>>,
             weight |-> DefaultWeight, target |-> DefaultTarget,
             reloaded |-> FALSE, stored |-> NothingStored]

\* The statistics: entries added to a stored list, the last entry removed,
\* and changes of the weight.
NextStats ==
  \/ Startup
  \/ \E caloriesInput \in CaloriesInputs : AddItem(<<>>, caloriesInput)
  \/ items # <<>> /\ RemoveItem(items[Len(items)].id)
  \/ \E w \in StatsWeightInputs : SetWeight(w)

SpecStats == InitStats /\ [][NextStats]_vars

(***************************************************************************)
(* Properties                                                              *)
(***************************************************************************)
\* The name, calories and timestamp of an entry.
Entry(item) == [name |-> item.name, calories |-> item.calories,
                timestamp |-> item.timestamp]

Entries(list) == [k \in 1..Len(list) |-> Entry(list[k])]

Ids(list) == {list[k].id : k \in 1..Len(list)}

\* The state is the one an import has just left, one that ran to its end.
ImportDone == last.op = "import"
ImportSucceeded == ImportDone /\ importStatus.kind = "Imported"
ImportFailed == last.op \in {"import", "readFailed"} /\ IsErrorStatus(importStatus)

\* C1: exporting a non-empty list and importing the exported file gives the
\* exported list back: the same names, calories and timestamps in the same
\* order.
C1_RoundTrip ==
  (ImportDone /\ last.file.isExport /\ last.file.from # <<>>)
    => /\ importStatus.kind = "Imported"
       /\ Entries(items) = Entries(last.file.from)

\* C2: an import that ends with an error leaves the entry list as it was
\* before; the weight and the goal stay too.
C2_FailedImportKeepsList ==
  ImportFailed
    => /\ items = last.before
       /\ weight = last.weight
       /\ selectedTarget = last.target

\* C2 witness: a non-empty list has survived an import that failed on the
\* time of its last row, after a good row.
C2_Witness ==
  /\ ImportFailed
  /\ importStatus.kind = "InvalidTime"
  /\ importStatus.n = 3
  /\ items # <<>>

\* The entries of the fixture files that import, in file order, as read off
\* the text of each file.
FixtureEntries(k) ==
  IF k = 6 THEN << [name |-> <<"b">>, calories |-> 20, timestamp |-> 2 * MsPerDay],
                   [name |-> <<"x", ",", "\"", "\n", "y">>, calories |-> 7,
                    timestamp |-> 1] >>
  ELSE IF k = 7 THEN << [name |-> <<"c">>, calories |-> 12, timestamp |-> MsPerDay] >>
  ELSE IF k = 10 THEN << [name |-> <<"a">>, calories |-> 1, timestamp |-> 1] >>
  ELSE IF k = 12 THEN << [name |-> UnnamedItem, calories |-> 7, timestamp |-> 1] >>
  ELSE IF k = 13 THEN << [name |-> <<"a">>, calories |-> 7, timestamp |-> 1] >>
  ELSE <<>>

\* list holds exactly the entries of expected, each as often, in some order.
SameEntries(list, expected) ==
  /\ Len(list) = Len(expected)
  /\ \A e \in {expected[k] : k \in 1..Len(expected)} :
       Cardinality({k \in 1..Len(list) : Entry(list[k]) = e})
         = Cardinality({k \in 1..Len(expected) : expected[k] = e})

IsSortedByTimestamp(list) ==
  \A j, k \in 1..Len(list) : j < k => list[j].timestamp <= list[k].timestamp

\* C3: after a successful import the list holds exactly the entries of the
\* file, in ascending order of timestamp, and none of the entries it held
\* before.
C3_ImportReplaces ==
  ImportSucceeded
    => /\ IsSortedByTimestamp(items)
       /\ \A k \in 1..Len(FileTexts) :
            last.file = FixtureFile(k) => SameEntries(items, FixtureEntries(k))
       /\ Ids(items) \cap Ids(last.before) = {}

\* C3 witness: the file whose two rows are in descending order of time has
\* replaced a non-empty list.
C3_Witness ==
  /\ ImportSucceeded
  /\ last.file = FixtureFile(6)
  /\ last.before # <<>>
  /\ Len(items) = 2
  /\ items[1].timestamp < items[2].timestamp

\* C4: every entry of the list has a finite integer calorie value and a
\* finite timestamp.
C4_FiniteEntries ==
  \A k \in 1..Len(items) :
    IsFinite(items[k].calories) /\ IsFinite(items[k].timestamp)

\* The text has a data row: a row after the header row that is not blank.
HasDataRow(text) ==
  \E k \in 2..Len(parseCsv(text)) : ~IsBlankRow(parseCsv(text)[k])

\* C5: an import of a text of fewer than two rows fails, and an import that
\* succeeds read a text with a header row and at least one data row.
C5_ImportNeedsDataRow ==
  /\ (ImportDone /\ Len(parseCsv(last.file.text)) < 2) => ImportFailed
  /\ ImportSucceeded => HasDataRow(last.file.text)

\* The header field is the word, letter case and surrounding white space
\* aside.
HeaderCarries(field, word) ==
  /\ Len(Trim(field)) = Len(word)
  /\ \A k \in 1..Len(word) : LowerChar(Trim(field)[k]) = word[k]

\* The columns (1-based) whose header field carries the word.
ColumnsOf(rows, word) ==
  {j \in 1..Len(rows[1]) : HeaderCarries(rows[1][j], word)}

\* The field of the row in column j (1-based), trimmed; empty past the end
\* of the row.
FieldAt(row, j) == IF j <= Len(row) THEN Trim(row[j]) ELSE <<>>

\* C6: an import of two rows or more fails on its header exactly when one
\* of name, calories, time is carried by no header field, whatever the case
\* and the order of the header fields; when it succeeds, every entry has its
\* name, calories and time from columns whose headers carry these words.
C6_HeaderMatching ==
  (ImportDone /\ Len(parseCsv(last.file.text)) >= 2)
    => \A rows \in {parseCsv(last.file.text)} :
         /\ (importStatus = HeaderError)
              <=> (\E word \in {NameColumn, CaloriesColumn, TimeColumn} :
                     ColumnsOf(rows, word) = {})
         /\ ImportSucceeded
              => \A k \in 1..Len(items) :
                   \E r \in 2..Len(rows) :
                     /\ \E j \in ColumnsOf(rows, NameColumn) :
                          items[k].name \in {FieldAt(rows[r], j), UnnamedItem}
                     /\ \E j \in ColumnsOf(rows, CaloriesColumn) :
                          items[k].calories = ParseInt(FieldAt(rows[r], j))
                     /\ \E j \in ColumnsOf(rows, TimeColumn) :
                          items[k].timestamp = DateParse(FieldAt(rows[r], j))

\* C6 witness: the file whose header is TIME,calories,NAME has been imported,
\* each value read from its own column.
C6_Witness ==
  /\ ImportSucceeded
  /\ last.file = FixtureFile(7)
  /\ Entries(items) = FixtureEntries(7)

\* The text is an integer numeral: an optional sign and one digit or more.
IsIntegerNumeral(string) ==
  LET body == IF string # <<>> /\ Head(string) \in {"-", "+"}
                THEN Tail(string) ELSE string
  IN  body # <<>> /\ AllDigits(body)

\* C7: an import whose text has a non-blank data row with a calories field
\* that is no integer numeral fails.
C7_RejectsNonIntegerCalories ==
  (ImportDone /\ Len(parseCsv(last.file.text)) >= 2)
    => \A rows \in {parseCsv(last.file.text)} :
         (/\ \A word \in {NameColumn, CaloriesColumn, TimeColumn} :
               ColumnsOf(rows, word) # {}
          /\ \E r \in 2..Len(rows) :
               /\ ~IsBlankRow(rows[r])
               /\ ~IsIntegerNumeral(
                     Cell(rows[r], IndexOf(HeaderOf(rows), CaloriesColumn))))
           => ImportFailed

\* One step of the split of a text into its rows, blank ones included: a row
\* ends at a line break outside quotes (CRLF, CR or LF).
RawRowStep(text, i, st) ==
  IF st.skip THEN [st EXCEPT !.skip = FALSE]
  ELSE IF text[i] = "\""
    THEN [st EXCEPT !.cur = Append(st.cur, text[i]), !.inQuotes = ~st.inQuotes]
  ELSE IF ~st.inQuotes /\ text[i] \in {"\n", "\r"}
    THEN [st EXCEPT !.rows = Append(st.rows, st.cur), !.cur = <<>>,
                    !.skip = (text[i] = "\r" /\ CharAt(text, i + 1) = "\n")]
  ELSE [st EXCEPT !.cur = Append(st.cur, text[i])]

RECURSIVE RawRowLoop(_, _, _, _)
RawRowLoop(text, from, to, st) ==
  IF from > to THEN st
  ELSE IF from = to THEN RawRowStep(text, from, st)
  ELSE CHOOSE result \in
         {RawRowLoop(text, ((from + to) \div 2) + 1, to, half) :
            half \in {RawRowLoop(text, from, (from + to) \div 2, st)}} : TRUE

\* The rows of the text as written, each as its own text, none dropped.
RawRows(text) ==
  LET st == RawRowLoop(text, 1, Len(text),
                       [rows |-> <<>>, cur |-> <<>>, inQuotes |-> FALSE,
                        skip |-> FALSE])
  IN  IF st.cur = <<>> THEN st.rows ELSE Append(st.rows, st.cur)

\* The fields of one row of text.
FieldsOf(rowText) == IF rowText = <<>> THEN << <<>> >> ELSE parseCsv(rowText)[1]

\* The row of the text is one the import rejects: not blank, and its calories
\* or its time does not parse.
IsBadRow(header, rowText) ==
  /\ ~IsBlankRow(FieldsOf(rowText))
  /\ \/ ~IsFinite(ParseInt(Cell(FieldsOf(rowText), IndexOf(header, CaloriesColumn))))
     \/ ~IsFinite(DateParse(Cell(FieldsOf(rowText), IndexOf(header, TimeColumn))))

\* C8: the error of an import that rejects a data row cites the 1-based
\* number of the first such row among the rows of the text, the header being
\* row 1 and blank lines counting as rows.
C8_ErrorCitesRow ==
  (ImportDone /\ importStatus.kind \in {"InvalidCalories", "InvalidTime"})
    => \A raw \in {RawRows(last.file.text)} :
         /\ importStatus.n \in 2..Len(raw)
         /\ IsBadRow(HeaderOf(parseCsv(last.file.text)), raw[importStatus.n])
         /\ \A r \in 2..(importStatus.n - 1) :
              ~IsBadRow(HeaderOf(parseCsv(last.file.text)), raw[r])

\* C9: no entry of the list has an empty name; an entry added with the name
\* input empty, and one imported from a row whose name field is blank, is
\* named "Unnamed Item".
C9_BlankNameIsUnnamed ==
  /\ \A k \in 1..Len(items) : items[k].name # <<>>
  /\ (last.op = "add" /\ last.arg[1] = <<>> /\ last.arg[2] # <<>>)
       => /\ Len(items) = Len(last.before) + 1
          /\ items[Len(items)].name = UnnamedItem
  /\ (ImportSucceeded /\ last.file = FixtureFile(12))
       => /\ Len(items) = 1
          /\ items[1].name = UnnamedItem

\* C9 witness: the file whose only row has a blank name has been imported
\* into a list that held an entry added without a name.
C9_Witness ==
  /\ ImportSucceeded
  /\ last.file = FixtureFile(12)
  /\ \E k \in 1..Len(last.before) : last.before[k].name = UnnamedItem
  /\ Len(items) = 1

\* C10: after a reload and the startup that follows it, the entry list, the
\* weight and the selected goal are what they were before the reload.
C10_SurvivesReload ==
  (last.op = "startup" /\ last.reloaded)
    => /\ items = last.before
       /\ weight = last.weight
       /\ selectedTarget = last.target

\* The stored value is the JSON text of a list of well-formed entries: each
\* with a finite calorie value and a finite timestamp.
IsWellFormedList(stored) ==
  /\ stored.kind = "array"
  /\ \A k \in 1..Len(stored.value) :
       IsFinite(stored.value[k].calories) /\ IsFinite(stored.value[k].timestamp)

\* C11: a startup does not crash, whatever is stored; the list it leaves is
\* the stored one when that is a list of well-formed entries and the empty
\* default otherwise, and the goal is the stored key when that is one of the
\* three goal keys and the default otherwise.
C11_MalformedStoredIgnored ==
  last.op = "startup"
    => /\ phase # "crashed"
       /\ items = (IF IsWellFormedList(last.stored.items)
                     THEN last.stored.items.value ELSE <<>>)
       /\ selectedTarget =
            (IF last.stored.selectedTarget.kind = "string"
                  /\ last.stored.selectedTarget.value \in TargetKeys
               THEN last.stored.selectedTarget.value ELSE DefaultTarget)

\* C12: the statistics computation does not throw on the list of any state;
\* on the empty list it returns null, and on any other list a result with
\* one total and one rolling value for each of at least one day.
C12_StatisticsNeverFail ==
  /\ ~RenderThrows(items)
  /\ items = <<>> => dailyChartData(items, weight) = NoData
  /\ items # <<>>
       => \A d \in {dailyChartData(items, weight)} :
            /\ ~d.isNull
            /\ Len(d.dailyCalories) >= 1
            /\ Len(d.rollingAverage) = Len(d.dailyCalories)
            /\ d.averageCalories # NaN
            /\ \A i \in 1..Len(d.rollingAverage) : d.rollingAverage[i] # NaN

\* C12 witness: the list is empty after the removal of its last entry, and
\* the statistics are null.
C12_Witness ==
  /\ last.op = "remove"
  /\ items = <<>>
  /\ dailyChartData(items, weight).isNull

\* The weights of the sessions of the statistics, in hundredths of a pound,
\* as read off their texts.
WeightTable ==
  { <<<<"1", "8", "0">>, 18000>>, <<<<"5", "0">>, 5000>>,
    <<<<"1", "2", "1", ".", "4", "3">>, 12143>>, <<<<"0", ".", "5">>, 50>> }

Abs(n) == IF n < 0 THEN 0 - n ELSE n

\* r is an integer nearest to sum / n.
IsNearest(r, sum, n) == 2 * Abs(r * n - sum) <= n

\* C13: in every state the targets follow from the weight of that state:
\* maintenance is the integer nearest to weight * 14, oneLb is
\* maintenance - 500 and twoLb is maintenance - 1000, neither below 1200;
\* weight 180 gives 2520/2020/1520 and weight 50 gives 700/1200/1200.
C13_Targets ==
  \A t \in {targets(weight)} :
    /\ \A row \in WeightTable :
         weight = row[1] => IsNearest(t.maintenance, row[2] * 14, 100)
    /\ t.oneLb = (IF t.maintenance - 500 > 1200 THEN t.maintenance - 500 ELSE 1200)
    /\ t.twoLb = (IF t.maintenance - 1000 > 1200 THEN t.maintenance - 1000 ELSE 1200)
    /\ weight = <<"1", "8", "0">>
         => t = [maintenance |-> 2520, oneLb |-> 2020, twoLb |-> 1520]
    /\ weight = <<"5", "0">>
         => t = [maintenance |-> 700, oneLb |-> 1200, twoLb |-> 1200]

\* C13 witness: the weight has been changed to 50, and both goals stand at
\* their floor.
C13_Witness ==
  /\ last.op = "weight"
  /\ last.weight = <<"1", "8", "0">>
  /\ weight = <<"5", "0">>
  /\ targets(weight).oneLb = 1200
  /\ targets(weight).twoLb = 1200

RECURSIVE SumOf(_, _, _)
\* seq[from] + ... + seq[to]
SumOf(seq, from, to) ==
  IF from > to THEN 0 ELSE seq[to] + SumOf(seq, from, to - 1)

\* C14: there is one rolling value for each day, and the rolling value of
\* the day at index i (0-based) is an integer nearest to the mean of the
\* daily totals at the indices max(0, i-6)..i; the totals 100, 200, 300 give
\* 100, 150, 200.
C14_RollingAverage ==
  items # <<>>
    => \A d \in {dailyChartData(items, weight)} :
         /\ Len(d.rollingAverage) = Len(d.dailyCalories)
         /\ \A i \in 1..Len(d.dailyCalories) :
              \A first \in {IF i - 6 > 1 THEN i - 6 ELSE 1} :
                IsNearest(d.rollingAverage[i], SumOf(d.dailyCalories, first, i),
                          i - first + 1)
         /\ d.dailyCalories = <<100, 200, 300>>
              => d.rollingAverage = <<100, 150, 200>>

\* C14 witness: the list has entries on eight days or more, so that the
\* window of a day leaves out the first day.
C14_Witness ==
  /\ phase = "ready"
  /\ Len(dailyChartData(items, weight).dailyCalories) >= 8
  /\ Len(dailyChartData(items, weight).rollingAverage) >= 8

\* C15: averageCalories is an integer nearest to the sum of the daily totals
\* divided by the number of days; the daily totals 1000, 2000 give 1500.
C15_OverallAverage ==
  items # <<>>
    => \A d \in {dailyChartData(items, weight)} :
         \A sum \in {SumOf(d.dailyCalories, 1, Len(d.dailyCalories))} :
           /\ IsNearest(d.averageCalories, sum, Len(d.dailyCalories))
           /\ d.dailyCalories = <<1000, 2000>> => d.averageCalories = 1500

\* C15 witness: the daily totals are 1000 and 2000.
C15_Witness ==
  /\ phase = "ready"
  /\ dailyChartData(items, weight).dailyCalories = <<1000, 2000>>
  /\ dailyChartData(items, weight).averageCalories = 1500

\* C16: the projected monthly weight change is (maintenance -
\* averageCalories) * 30 / 3500; it is above zero and captioned a loss
\* exactly when the average is below maintenance, below zero and captioned a
\* gain exactly when the average is above it, and zero and captioned
\* maintenance exactly when the two are equal.
C16_ProjectedWeightChange ==
  items # <<>>
    => \A d \in {dailyChartData(items, weight)} :
         \A change \in {d.expectedWeightLossPerMonth} :
           \A maintenance \in {targets(weight).maintenance} :
             /\ change.den > 0
             /\ change.num * 3500 = (maintenance - d.averageCalories) * 30 * change.den
             /\ (d.averageCalories < maintenance)
                  <=> (change.num > 0
                         /\ WeightChangeCaption(change) = "per month (loss)")
             /\ (d.averageCalories > maintenance)
                  <=> (change.num < 0
                         /\ WeightChangeCaption(change) = "per month (gain)")
             /\ (d.averageCalories = maintenance)
                  <=> (change.num = 0
                         /\ WeightChangeCaption(change) = "per month (maintenance)")

\* C16 witness: the average of the daily totals 1000 and 2000 is 1500, the
\* maintenance of the weight 121.43 is 1700, and the projected change is
\* 200 * 30 / 3500, a loss.
C16_Witness ==
  /\ phase = "ready"
  /\ weight = <<"1", "2", "1", ".", "4", "3">>
  /\ targets(weight).maintenance = 1700
  /\ dailyChartData(items, weight).dailyCalories = <<1000, 2000>>
  /\ dailyChartData(items, weight).expectedWeightLossPerMonth
       = [num |-> 6000, den |-> 3500]
  /\ WeightChangeCaption(dailyChartData(items, weight).expectedWeightLossPerMonth)
       = "per month (loss)"

RECURSIVE CaloriesOver(_, _)
\* The sum of the calories of the entries of the list at the indices of the
\* set.
CaloriesOver(list, indices) ==
  IF indices = {} THEN 0
  ELSE LET k == CHOOSE k \in indices : TRUE
       IN  Plus(list[k].calories, CaloriesOver(list, indices \ {k}))

\* C17: the dates of the daily series are the UTC dates of the entries, each
\* once and in ascending order; the total of a date is the sum of the
\* calories of the entries of that date, and the daily totals add up to the
\* sum of the calories of all entries.
C17_DailyAggregation ==
  items # <<>>
    => \A d \in {dailyChartData(items, weight)} :
         \A keys \in {[k \in 1..Len(items) |-> DateKey(items[k].timestamp)]} :
           /\ {d.labels[j] : j \in 1..Len(d.labels)}
                = {keys[k] : k \in 1..Len(items)}
           /\ \A i, j \in 1..Len(d.labels) :
                i < j => StringLess(d.labels[i], d.labels[j])
           /\ Len(d.dailyCalories) = Len(d.labels)
           /\ \A j \in 1..Len(d.labels) :
                d.dailyCalories[j]
                  = CaloriesOver(items, {k \in 1..Len(items) : keys[k] = d.labels[j]})
           /\ Sum(d.dailyCalories) = CaloriesOver(items, 1..Len(items))

\* The entries of the list that come before the entry at index i in ascending
\* order of timestamp, entries of one timestamp in list order.
EarlierThan(list, i) ==
  {j \in 1..Len(list) :
     \/ list[j].timestamp < list[i].timestamp
     \/ list[j].timestamp = list[i].timestamp /\ j < i}

\* The k earliest entries of the list.
Earliest(list, k) ==
  {i \in 1..Len(list) : Cardinality(EarlierThan(list, i)) < k}

\* C18: the cumulative series has one point more than the list has entries;
\* its first point is 0, labelled Start; the point that follows k points is
\* the sum of the calories of the k earliest entries, the last one the sum
\* of all; each target line has as many points, all of them the target.
C18_CumulativeSeries ==
  \A c \in {chartData(items, weight)} :
    /\ Len(c.data) = Len(items) + 1
    /\ Len(c.labels) = Len(items) + 1
    /\ c.data[1] = 0
    /\ c.labels[1] = StartLabel
    /\ \A k \in 1..Len(items) :
         c.data[k + 1] = CaloriesOver(items, Earliest(items, k))
    /\ c.data[Len(items) + 1] = totalCalories(items)
    /\ c.maintenance = [k \in 1..(Len(items) + 1) |-> targets(weight).maintenance]
    /\ c.oneLb = [k \in 1..(Len(items) + 1) |-> targets(weight).oneLb]
    /\ c.twoLb = [k \in 1..(Len(items) + 1) |-> targets(weight).twoLb]

\* C18 witness: the list is not in order of timestamp: an entry was added
\* after entries of later days.
C18_Witness ==
  /\ last.op = "add"
  /\ Len(items) >= 3
  /\ \E j, k \in 1..Len(items) :
       j < k /\ items[j].timestamp > items[k].timestamp
  /\ chartData(items, weight).data[2] = items[Len(items)].calories

\* The field between double quotes, each double quote of it written twice:
\* the character at index k of the field stands after the opening quote and
\* the characters before it, a double quote among these counting twice.
QuotedField(field) ==
  LET QuotesBefore(k) == Cardinality({j \in 1..(k - 1) : field[j] = "\""})
      total == Len(field) + QuotesBefore(Len(field) + 1) + 2
  IN  [p \in 1..total |->
         IF p = 1 \/ p = total THEN "\""
         ELSE field[CHOOSE k \in 1..Len(field) :
                      /\ p >= k + QuotesBefore(k) + 1
                      /\ p <= k + QuotesBefore(k) + 1
                                + (IF field[k] = "\"" THEN 1 ELSE 0)]]

\* The field as the CSV text has it: quoted when it holds a comma, a double
\* quote or a line break, and as it is otherwise.
WrittenField(field) ==
  IF \E k \in 1..Len(field) : field[k] \in {",", "\"", "\n", "\r"}
    THEN QuotedField(field) ELSE field

RECURSIVE WrittenRows(_)
\* A line break and a row name,calories,time for each entry, in list order.
WrittenRows(list) ==
  IF list = <<>> THEN <<>>
  ELSE LF \o WrittenField(Head(list).name) \o <<",">>
          \o WrittenField(NumberToString(Head(list).calories)) \o <<",">>
          \o WrittenField(ToISOString(Head(list).timestamp))
          \o WrittenRows(Tail(list))

\* C19: the text of an export is the header row Name,Calories,Time followed
\* by one row for each entry of the exported list, in list order; a field is
\* between double quotes, its own double quotes doubled, exactly when it
\* holds a comma, a double quote or a line break; the text is determined by
\* the list.
C19_Serialize ==
  exported.isExport => exported.text = HeaderRow \o WrittenRows(exported.from)

\* C19 witness: an exported list with a name that holds a comma, a double
\* quote and a line break, and a name that holds none of them.
C19_Witness ==
  /\ last.op = "export"
  /\ exported.from = items
  /\ \E k \in 1..Len(items) :
       {",", "\"", "\n"} \subseteq {items[k].name[j] : j \in 1..Len(items[k].name)}
  /\ \E k \in 1..Len(items) : items[k].name = <<"b">>

\* C20: the rows parseCsv returns are the rows of the text, each ended by a
\* CRLF, a CR or an LF outside quotes (the last one by the end of the text),
\* in the order of the text and with their blank rows; only a blank row at
\* the end of the text is left out.
C20_RowTermination ==
  ImportDone
    => \A raw \in {RawRows(last.file.text)} :
         \A rows \in {parseCsv(last.file.text)} :
           /\ Len(rows) = Len(raw)
           /\ \A r \in 1..Len(raw) : r <= Len(rows) => rows[r] = FieldsOf(raw[r])

\* C21: when the read of a file completes right after the import of a file
\* that was selected later has completed, the entry list and the status stay
\* those the later file left: the earlier import is superseded.
C21_LaterImportWins ==
  [][(/\ last.op = "import"
      /\ last'.op \in {"import", "readFailed"}
      /\ Len(pending') < Len(pending)
      /\ last'.arg[1] < last.arg[1])
       => (Entries(items') = Entries(items) /\ importStatus' = importStatus)]_vars

\* C22: a storage call that throws is caught where it is made.  After the
\* load effect, a key whose read threw has its initial value and each other
\* key has the well-formed value that was stored under it; the page is
\* shown.  An addition, a removal, a new weight and a new goal have their
\* effect on the in-memory state whether or not the write that follows
\* throws, and a write that throws leaves the stored value of its key alone.
C22_StorageFailuresCaught ==
  /\ last.op = "startup" =>
       /\ phase = "ready"
       /\ items = IF "items" \notin failing.read /\ last.stored.items.kind = "array"
                    THEN last.stored.items.value ELSE <<>>
       /\ weight = IF /\ "weight" \notin failing.read
                      /\ last.stored.weight.kind = "string"
                    THEN last.stored.weight.value ELSE DefaultWeight
       /\ selectedTarget = IF /\ "selectedTarget" \notin failing.read
                              /\ last.stored.selectedTarget.kind = "string"
                            THEN last.stored.selectedTarget.value
                            ELSE DefaultTarget
  /\ last.op = "add" /\ last.arg[2] # <<>> =>
       /\ Len(items) = Len(last.before) + 1
       /\ SubSeq(items, 1, Len(last.before)) = last.before
  /\ last.op = "remove" =>
       /\ Len(items) < Len(last.before)
       /\ \A k \in 1..Len(items) : items[k].id # last.arg[1]
  /\ last.op = "weight" => weight = last.arg[1]
  /\ last.op = "target" => selectedTarget = last.arg[1]
  /\ last.op \in {"add", "remove", "weight", "target"} =>
       /\ "items" \in failing.write => storage.items = last.stored.items
       /\ "weight" \in failing.write => storage.weight = last.stored.weight

\* The read of the weight throws at a reload while a list, a weight and a
\* goal are stored: the list and the goal are loaded, the weight is not.
C22_Witness ==
  /\ last.op = "startup"
  /\ failing.read = {"weight"}
  /\ last.stored.weight = StoredString(<<"5", "0">>)
  /\ weight = DefaultWeight
  /\ items # <<>>
  /\ selectedTarget = "oneLb"

\* The positions of the entries of a list that do not have the id, and the
\* n-th of them.
KeptPositions(list, id) == {k \in 1..Len(list) : list[k].id # id}
NthKept(list, id, n) ==
  CHOOSE k \in KeptPositions(list, id) :
    Cardinality({m \in KeptPositions(list, id) : m < k}) = n - 1

\* C23: entries are created and removed, never changed.  An addition with a
\* calories input appends one entry with a new id and leaves the entries
\* before it as they were; with an empty calories input the list stays the
\* same; a removal leaves exactly the entries with another id, each as it
\* was and in the order they had.
C23_EntriesNeverMutated ==
  /\ last.op = "add" /\ last.arg[2] # <<>> =>
       /\ Len(items) = Len(last.before) + 1
       /\ SubSeq(items, 1, Len(last.before)) = last.before
       /\ \A k \in 1..Len(last.before) :
            last.before[k].id # items[Len(items)].id
       /\ items[Len(items)].calories = ParseInt(last.arg[2])
  /\ last.op = "add" /\ last.arg[2] = <<>> => items = last.before
  /\ last.op = "remove" =>
       /\ Len(items) = Cardinality(KeptPositions(last.before, last.arg[1]))
       /\ \A n \in 1..Len(items) :
            items[n] = last.before[NthKept(last.before, last.arg[1], n)]

\* The middle one of three entries has been removed.
C23_Witness ==
  /\ last.op = "remove"
  /\ Len(last.before) = 3
  /\ last.arg[1] = last.before[2].id
  /\ items = <<last.before[1], last.before[3]>>

\* The positions of the entries whose timestamp is on the UTC date of now.
TodaysPositions(list, time) ==
  {k \in 1..Len(list) : IsFinite(list[k].timestamp)
                          /\ DateKey(list[k].timestamp) = DateKey(time)}

\* C24: the total shown against the goal is the total of the day: it is the
\* sum of the calories of the entries whose timestamp is on the current day;
\* the line under it reads "over goal" exactly when that sum is above the
\* selected goal, and otherwise shows a remainder that is not negative.
C24_RunningTotalOfTheDay ==
  phase = "ready" =>
    LET today == CaloriesOver(items, TodaysPositions(items, now))
        line == GoalLine(items, weight, selectedTarget)
    IN  /\ totalCalories(items) = today
        /\ line.over <=> today > currentGoal(weight, selectedTarget)
        /\ ~line.over => line.amount >= 0

\* The value is a list of rows: each row has a field, each field is a string
\* of characters of the text.
IsRows(value, text) ==
  \A k \in 1..Len(value) :
    /\ Len(value[k]) >= 1
    /\ \A f \in 1..Len(value[k]) :
         \A c \in 1..Len(value[k][f]) :
           \E i \in 1..Len(text) : text[i] = value[k][f][c]

\* C25: for every list of rows of two fields or more, whatever the fields
\* hold (nothing, commas, double quotes, CR, LF), parseCsv of the text toCsv
\* writes is the list; and parseCsv returns a list of rows for every text,
\* one with a quote that is never closed included.
C25_CodecRoundTrip ==
  codec.stage = "parsed" =>
    /\ codec.fromRows => codec.parsed = codec.rows
    /\ IsRows(codec.parsed, codec.text)

\* Two rows whose fields are the empty string, a double quote, a CR and an
\* LF have been written and read back.
C25_Witness ==
  /\ codec.stage = "parsed"
  /\ codec.fromRows
  /\ codec.rows = << <<<<>>, <<"\"">> >>, << <<"\r">>, <<"\n">> >> >>
  /\ codec.parsed = codec.rows

\* A text with a quote that is never closed has been read.
C25_UnterminatedQuoteRead ==
  /\ codec.stage = "parsed"
  /\ codec.text = <<"\"", "a", ",", "\n">>
  /\ codec.parsed = << << <<"a", ",", "\n">> >> >>

====
